---------------------------- MODULE Spec2Model ----------------------------
(***************************************************************************)
(* Metrics sampling engine of ServerStatusRust (client/src/status.rs):     *)
(* the collectors, the two background rate samplers, the two mutex-guarded *)
(* cells they publish into, and sample(), which assembles a snapshot.      *)
(*                                                                         *)
(* Conventions of the model                                                *)
(*  - A text token that parses as an unsigned number is the number itself; *)
(*    a token that does not parse (letters, empty digits, out of range) is *)
(*    BAD.                                                                 *)
(*  - u64 arithmetic is kept modulo 2^WordBits.  Subtraction is the only   *)
(*    u64 operation of the file that can leave the range with small        *)
(*    operands; the build decides what happens then (overflowChecks).      *)
(*  - f64 values are carried as exact numbers; HUNDREDTHS are used for the *)
(*    load averages.                                                       *)
(*  - A panic of a thread ends that thread: its position becomes "dead"    *)
(*    (sampler) or "panicked" (the thread calling sample).                 *)
(***************************************************************************)
EXTENDS Integers, Sequences, FiniteSets, TLC

VARIABLES
    overflowChecks,   \* build profile: u64 overflow panics (dev) or wraps (release)
    cpuMutex,         \* Mutex of G_CPU_PERCENT: [holder, poisoned]
    netMutex,         \* Mutex of G_NET_SPEED:   [holder, poisoned]
    G_CPU_PERCENT,    \* the f64 behind cpuMutex
    G_NET_SPEED,      \* the NetSpeed behind netMutex
    cpuT,             \* CPU sampler thread: position, pre_cpu, res
    netT,             \* Network sampler thread: position, avgrx, avgtx, now
    asm,              \* thread calling sample: position, args, inputs read
    stat,             \* the StatRequest sample() fills
    hist,             \* history: the readings behind the current values
    env,              \* the files and tool outputs as sample() finds them
    probe             \* the parsers of /proc/net/dev applied to env.dev: [sys, net]

vars == <<env, probe, overflowChecks, cpuMutex, netMutex, G_CPU_PERCENT, G_NET_SPEED,
          cpuT, netT, asm, stat, hist>>

(***************************************************************************)
(* Bounds of the model.                                                    *)
(***************************************************************************)
WordBits == 6
MaxJiffy == 2
MaxBytes == 2
MaxNow == 2
MaxKb == 2

WordMod == 2 ^ WordBits
U64Max == WordMod - 1

BAD == -1

\* A token of digits whose value does not fit a u64: \d+ matches it, parse
\* fails on it.
TOOBIG == -2

\* Where digits are expected and none are there: \d* matches it, parse fails.
EMPTY == -3

IsNum(tok) == tok >= 0

IsDigits(tok) == tok >= 0 \/ tok = TOOBIG

Min(a, b) == IF a < b THEN a ELSE b

RECURSIVE SumSeq(_)
SumSeq(s) == IF s = <<>> THEN 0 ELSE Head(s) + SumSeq(Tail(s))

(***************************************************************************)
(* u64 subtraction a - b: the mathematical difference when it is in range, *)
(* else a panic (overflow checks on) or the wrapped value (off).           *)
(***************************************************************************)
SubOverflows(a, b) == a < b

WrappingSub(a, b) == (a - b + WordMod) % WordMod

(***************************************************************************)
(* f64::round: to the nearest integer, halves away from zero, of n / d     *)
(* with d > 0.                                                             *)
(***************************************************************************)
RoundDiv(n, d) ==
    IF n >= 0 THEN (2 * n + d) \div (2 * d)
              ELSE -((2 * (-n) + d) \div (2 * d))

(***************************************************************************)
(* (x as f64 / diff) as u64 with x a u64 and diff an integer-valued f64:   *)
(* the float to integer cast truncates, saturates, and sends NaN to 0.     *)
(***************************************************************************)
RateOf(x, diff) ==
    IF diff > 0 THEN Min(x \div diff, U64Max)
    ELSE IF diff = 0 THEN (IF x > 0 THEN U64Max ELSE 0)
    ELSE 0

(***************************************************************************)
(* std::sync::Mutex.  lock() blocks while another thread holds the mutex;  *)
(* on a poisoned mutex it returns Err, holding the guard until the Err is  *)
(* dropped.  A guard dropped while its thread panics poisons the mutex.    *)
(***************************************************************************)
FreeMutex == [holder |-> "none", poisoned |-> FALSE]

CanLock(m) == m.holder = "none"

Locked(m, who) == [m EXCEPT !.holder = who]

Unlocked(m) == [m EXCEPT !.holder = "none"]

PoisonedUnlock(m) == [holder |-> "none", poisoned |-> TRUE]


(***************************************************************************)
(* CPU sampler, start_cpu_percent_collect_t.                               *)
(*                                                                         *)
(* A read of /proc/stat is [open, read, toks]: whether File::open and      *)
(* read_line succeeded, and the tokens of the first line after its "cpu"   *)
(* label (split_whitespace indices 1, 2, ...).                             *)
(***************************************************************************)
ZeroCpu == <<0, 0, 0, 0>>

NoRes == [n |-> 0, d |-> 1]

\* user, nice, system, idle: user and idle vary.
CpuVectors == {<<u, 1, 0, i>> : u \in 0..MaxJiffy, i \in 0..MaxJiffy}

CpuFile(toks) == [open |-> TRUE, read |-> TRUE, toks |-> toks]

CpuOpenFails == [open |-> FALSE, read |-> FALSE, toks |-> <<>>]

CpuReadFails == [open |-> TRUE, read |-> FALSE, toks |-> <<>>]

\* Every outcome of a tick's read: open or read failure, a line with the four
\* counters and a fifth field, a line of three fields, an empty line, a
\* line with a token that is no number.
CpuFilesAll ==
    {CpuOpenFails, CpuReadFails}
    \cup {CpuFile(v \o <<MaxJiffy>>) : v \in CpuVectors}
    \cup {CpuFile(<<1, 1, 1>>), CpuFile(<<>>), CpuFile(<<1, BAD, 1, 1, 0>>)}

\* .enumerate().filter(|&(idx, _)| idx > 0 && idx < 5)
CpuFields(toks) == SubSeq(toks, 1, Min(Len(toks), 4))

\* CpuCompute with the idle counter itself in place of its increase since
\* the previous tick.
CpuComputeNoPrev(pre_cpu, toks, checks) ==
    LET cur_cpu == CpuFields(toks)
        pre     == SumSeq(pre_cpu)
        cur     == SumSeq(cur_cpu)
        st0     == WrappingSub(cur, pre)
        st      == IF st0 = 0 THEN 1 ELSE st0
    IN  IF \E i \in 1..Len(cur_cpu) : ~IsNum(cur_cpu[i])
          THEN [panic |-> TRUE, pre_cpu |-> pre_cpu, res |-> NoRes]
        ELSE IF checks /\ SubOverflows(cur, pre)
          THEN [panic |-> TRUE, pre_cpu |-> pre_cpu, res |-> NoRes]
        ELSE IF Len(cur_cpu) < 4
          THEN [panic |-> TRUE, pre_cpu |-> pre_cpu, res |-> NoRes]
        ELSE IF checks /\ SubOverflows(cur_cpu[4], pre_cpu[4])
          THEN [panic |-> TRUE, pre_cpu |-> pre_cpu, res |-> NoRes]
        ELSE [panic   |-> FALSE,
              pre_cpu |-> cur_cpu,
              res     |-> [n |-> 100 * st - 100 * cur_cpu[4],
                           d |-> st]]

\* CpuCompute publishing the idle share instead of 100 minus it.
CpuComputeIdleShare(pre_cpu, toks, checks) ==
    LET cur_cpu == CpuFields(toks)
        pre     == SumSeq(pre_cpu)
        cur     == SumSeq(cur_cpu)
        st0     == WrappingSub(cur, pre)
        st      == IF st0 = 0 THEN 1 ELSE st0
    IN  IF \E i \in 1..Len(cur_cpu) : ~IsNum(cur_cpu[i])
          THEN [panic |-> TRUE, pre_cpu |-> pre_cpu, res |-> NoRes]
        ELSE IF checks /\ SubOverflows(cur, pre)
          THEN [panic |-> TRUE, pre_cpu |-> pre_cpu, res |-> NoRes]
        ELSE IF Len(cur_cpu) < 4
          THEN [panic |-> TRUE, pre_cpu |-> pre_cpu, res |-> NoRes]
        ELSE IF checks /\ SubOverflows(cur_cpu[4], pre_cpu[4])
          THEN [panic |-> TRUE, pre_cpu |-> pre_cpu, res |-> NoRes]
        ELSE [panic   |-> FALSE,
              pre_cpu |-> cur_cpu,
              res     |-> [n |-> 100 * WrappingSub(cur_cpu[4], pre_cpu[4]),
                           d |-> st]]

\* Lines 240-259 on the tokens of the line: the new pre_cpu and the
\* unrounded res as the fraction n / d, or a panic.
CpuCompute(pre_cpu, toks, checks) ==
    LET cur_cpu == CpuFields(toks)
        pre     == SumSeq(pre_cpu)
        cur     == SumSeq(cur_cpu)
        st0     == WrappingSub(cur, pre)
        st      == IF st0 = 0 THEN 1 ELSE st0
    IN  IF \E i \in 1..Len(cur_cpu) : ~IsNum(cur_cpu[i])
          THEN [panic |-> TRUE, pre_cpu |-> pre_cpu, res |-> NoRes]
        ELSE IF checks /\ SubOverflows(cur, pre)
          THEN [panic |-> TRUE, pre_cpu |-> pre_cpu, res |-> NoRes]
        ELSE IF Len(cur_cpu) < 4
          THEN [panic |-> TRUE, pre_cpu |-> pre_cpu, res |-> NoRes]
        ELSE IF checks /\ SubOverflows(cur_cpu[4], pre_cpu[4])
          THEN [panic |-> TRUE, pre_cpu |-> pre_cpu, res |-> NoRes]
        ELSE [panic   |-> FALSE,
              pre_cpu |-> cur_cpu,
              res     |-> [n |-> 100 * st - 100 * WrappingSub(cur_cpu[4], pre_cpu[4]),
                           d |-> st]]

\* res.round()
CpuRounded(res) == RoundDiv(res.n, res.d)

\* One pass of the loop body up to the lock request (lines 236-259).
CpuRead(files) ==
    /\ cpuT.pc = "read"
    /\ \E f \in files :
         IF ~f.open \/ ~f.read
           THEN /\ cpuT' = [cpuT EXCEPT !.pc = "sleep"]
                /\ UNCHANGED hist
           ELSE \E r \in {CpuCompute(cpuT.pre_cpu, f.toks, overflowChecks)},
                   fields \in {CpuFields(f.toks)} :
                    IF r.panic
                      THEN /\ cpuT' = [pc |-> "dead", pre_cpu |-> ZeroCpu, res |-> NoRes]
                           /\ UNCHANGED hist
                      ELSE /\ cpuT' = [pc |-> "lock", pre_cpu |-> r.pre_cpu, res |-> r.res]
                           /\ hist' = [hist EXCEPT
                                 !.cpuMono = @ /\ \A i \in 1..4 : fields[i] >= cpuT.pre_cpu[i],
                                 !.cpuIdleD = fields[4] - cpuT.pre_cpu[4],
                                 !.cpuTotD = SumSeq(fields) - SumSeq(cpuT.pre_cpu)]
    /\ UNCHANGED <<env, probe, overflowChecks, cpuMutex, netMutex, G_CPU_PERCENT, G_NET_SPEED,
                   netT, asm, stat>>

\* G_CPU_PERCENT.lock() (line 261)
CpuLock ==
    /\ cpuT.pc = "lock"
    /\ CanLock(cpuMutex)
    /\ cpuMutex' = Locked(cpuMutex, "cpu")
    /\ cpuT' = [cpuT EXCEPT !.pc = "store"]
    /\ UNCHANGED <<env, probe, overflowChecks, netMutex, G_CPU_PERCENT, G_NET_SPEED,
                   netT, asm, stat, hist>>

\* if let Ok(mut cpu_percent) = ... { *cpu_percent = res.round(); } and the
\* guard's drop (lines 261-264)
CpuStore ==
    /\ cpuT.pc = "store"
    /\ G_CPU_PERCENT' = IF cpuMutex.poisoned THEN G_CPU_PERCENT
                                             ELSE CpuRounded(cpuT.res)
    /\ cpuMutex' = Unlocked(cpuMutex)
    /\ cpuT' = [cpuT EXCEPT !.pc = "sleep", !.res = NoRes]
    /\ hist' = [hist EXCEPT !.cpuIdleD = 0, !.cpuTotD = 0]
    /\ UNCHANGED <<env, probe, overflowChecks, netMutex, G_NET_SPEED, netT, asm, stat>>

\* thread::sleep(SAMPLE_PERIOD) and the loop's next pass (line 268)
CpuSleep ==
    /\ cpuT.pc = "sleep"
    /\ cpuT' = [cpuT EXCEPT !.pc = "read"]
    /\ UNCHANGED <<env, probe, overflowChecks, cpuMutex, netMutex, G_CPU_PERCENT, G_NET_SPEED,
                   netT, asm, stat, hist>>

(***************************************************************************)
(* Interface names and the ignore list.  A name is the sequence of its     *)
(* characters, so that str::contains is a substring search.                *)
(***************************************************************************)
IFACE_IGNORE_VEC ==
    << <<"l", "o">>,
       <<"d", "o", "c", "k", "e", "r">>,
       <<"v", "n", "e", "t">>,
       <<"v", "e", "t", "h">>,
       <<"v", "m", "b", "r">>,
       <<"k", "u", "b", "e">>,
       <<"b", "r", "-">> >>

\* str::contains
Contains(s, p) ==
    \E i \in 0..(Len(s) - Len(p)) : SubSeq(s, i + 1, i + Len(p)) = p

\* Ignored matching whole names instead of substrings.
IgnoredExact(name) ==
    \E k \in 1..Len(IFACE_IGNORE_VEC) : name = IFACE_IGNORE_VEC[k]

\* IFACE_IGNORE_VEC.iter().any(|sk| name.contains(*sk))
Ignored(name) ==
    \E k \in 1..Len(IFACE_IGNORE_VEC) : Contains(name, IFACE_IGNORE_VEC[k])

(***************************************************************************)
(* /proc/net/dev.  A read is [open, lineErr, lines]: whether File::open    *)
(* succeeded, whether reading a line fails, and the lines.  A line is      *)
(* [colon, name, toks]: whether it holds a ':', the text before the colon  *)
(* without its blanks, and the whitespace-separated tokens after it.  The  *)
(* kernel writes two header lines without a colon, then per interface the  *)
(* name and sixteen counters: receive bytes first, transmit bytes ninth.   *)
(***************************************************************************)
DevHeader == [colon |-> FALSE, name |-> <<>>, toks |-> <<>>]

DevLine(ifc) ==
    [colon |-> TRUE,
     name  |-> ifc.name,
     toks  |-> <<ifc.rx, 1, 0, 0, 0, 0, 0, 0, ifc.tx, 1, 0, 0, 0, 0, 0, 0>>]

DevFile(ifaces) ==
    [open    |-> TRUE,
     lineErr |-> FALSE,
     lines   |-> <<DevHeader, DevHeader>> \o [i \in 1..Len(ifaces) |-> DevLine(ifaces[i])]]

DevOpenFails == [open |-> FALSE, lineErr |-> FALSE, lines |-> <<>>]

DevLineErr == [open |-> TRUE, lineErr |-> TRUE, lines |-> <<DevHeader>>]

\* A file whose interface line has the given tokens.
DevRaw(name, toks) ==
    [open    |-> TRUE,
     lineErr |-> FALSE,
     lines   |-> <<DevHeader, DevHeader, [colon |-> TRUE, name |-> name, toks |-> toks]>>]

(***************************************************************************)
(* Network sampler, start_net_speed_collect_t.                             *)
(***************************************************************************)
ZeroNetSpeed ==
    [diff |-> 0, clock |-> 0, netrx |-> 0, nettx |-> 0, avgrx |-> 0, avgtx |-> 0]

\* The for loop of lines 194-207 from line i on, with the sums so far.
RECURSIVE NetSumFrom(_, _, _, _)
NetSumFrom(lines, i, avgrx, avgtx) ==
    IF i > Len(lines) THEN [panic |-> FALSE, rx |-> avgrx, tx |-> avgtx]
    ELSE LET l == lines[i]
         IN  IF ~l.colon THEN NetSumFrom(lines, i + 1, avgrx, avgtx)
             ELSE IF Ignored(l.name) THEN NetSumFrom(lines, i + 1, avgrx, avgtx)
             ELSE IF Len(l.toks) < 1 \/ ~IsNum(l.toks[1])
               THEN [panic |-> TRUE, rx |-> 0, tx |-> 0]
             ELSE IF Len(l.toks) < 9 \/ ~IsNum(l.toks[9])
               THEN [panic |-> TRUE, rx |-> 0, tx |-> 0]
             ELSE NetSumFrom(lines, i + 1, avgrx + l.toks[1], avgtx + l.toks[9])

NetSum(f) ==
    IF f.lineErr THEN [panic |-> TRUE, rx |-> 0, tx |-> 0]
                 ELSE NetSumFrom(f.lines, 1, 0, 0)

IdleNet == [pc |-> "read", avgrx |-> 0, avgtx |-> 0, now |-> 0]

\* The read of a tick and the clock (lines 191-212).
NetRead(files, times) ==
    /\ netT.pc = "read"
    /\ \E f \in files, now \in times :
         IF ~f.open
           THEN netT' = [netT EXCEPT !.pc = "sleep"]
           ELSE \E r \in {NetSum(f)} :
                    IF r.panic
                      THEN netT' = [IdleNet EXCEPT !.pc = "dead"]
                      ELSE netT' = [pc |-> "lock", avgrx |-> r.rx, avgtx |-> r.tx,
                                    now |-> now]
    /\ UNCHANGED <<env, probe, overflowChecks, cpuMutex, netMutex, G_CPU_PERCENT, G_NET_SPEED,
                   cpuT, asm, stat, hist>>

\* G_NET_SPEED.lock() (line 214)
NetLock ==
    /\ netT.pc = "lock"
    /\ CanLock(netMutex)
    /\ netMutex' = Locked(netMutex, "net")
    /\ netT' = [netT EXCEPT !.pc = "clock"]
    /\ UNCHANGED <<env, probe, overflowChecks, cpuMutex, G_CPU_PERCENT, G_NET_SPEED,
                   cpuT, asm, stat, hist>>

\* if let Ok(mut t) = ...; t.diff = now - t.clock; t.clock = now (lines 214-216)
NetWriteClock ==
    /\ netT.pc = "clock"
    /\ IF netMutex.poisoned
         THEN /\ netMutex' = Unlocked(netMutex)
              /\ netT' = [IdleNet EXCEPT !.pc = "sleep"]
              /\ UNCHANGED G_NET_SPEED
         ELSE /\ G_NET_SPEED' = [G_NET_SPEED EXCEPT !.diff = netT.now - G_NET_SPEED.clock,
                                                    !.clock = netT.now]
              /\ netT' = [netT EXCEPT !.pc = "rx"]
              /\ UNCHANGED netMutex
    /\ UNCHANGED <<env, probe, overflowChecks, cpuMutex, G_CPU_PERCENT, cpuT, asm, stat, hist>>

\* A panic with the guard alive: the guard's drop poisons and releases.
NetPanicLocked ==
    /\ netMutex' = PoisonedUnlock(netMutex)
    /\ netT' = [IdleNet EXCEPT !.pc = "dead"]
    /\ UNCHANGED G_NET_SPEED

\* t.netrx = ((avgrx - t.avgrx) as f64 / t.diff) as u64 (line 217)
NetWriteRx ==
    /\ netT.pc = "rx"
    /\ IF overflowChecks /\ SubOverflows(netT.avgrx, G_NET_SPEED.avgrx)
         THEN NetPanicLocked
         ELSE /\ G_NET_SPEED' = [G_NET_SPEED EXCEPT !.netrx =
                    RateOf(WrappingSub(netT.avgrx, G_NET_SPEED.avgrx), G_NET_SPEED.diff)]
              /\ netT' = [netT EXCEPT !.pc = "tx"]
              /\ UNCHANGED netMutex
    /\ UNCHANGED <<env, probe, overflowChecks, cpuMutex, G_CPU_PERCENT, cpuT, asm, stat, hist>>

\* t.nettx = ((avgtx - t.avgtx) as f64 / t.diff) as u64 (line 218)
NetWriteTx ==
    /\ netT.pc = "tx"
    /\ IF overflowChecks /\ SubOverflows(netT.avgtx, G_NET_SPEED.avgtx)
         THEN NetPanicLocked
         ELSE /\ G_NET_SPEED' = [G_NET_SPEED EXCEPT !.nettx =
                    RateOf(WrappingSub(netT.avgtx, G_NET_SPEED.avgtx), G_NET_SPEED.diff)]
              /\ netT' = [netT EXCEPT !.pc = "avg"]
              /\ UNCHANGED netMutex
    /\ UNCHANGED <<env, probe, overflowChecks, cpuMutex, G_CPU_PERCENT, cpuT, asm, stat, hist>>

\* t.avgrx = avgrx; t.avgtx = avgtx; and the guard's drop (lines 219-223)
NetWriteAvg ==
    /\ netT.pc = "avg"
    /\ G_NET_SPEED' = [G_NET_SPEED EXCEPT !.avgrx = netT.avgrx, !.avgtx = netT.avgtx]
    /\ netMutex' = Unlocked(netMutex)
    /\ netT' = [IdleNet EXCEPT !.pc = "sleep"]
    /\ hist' = [hist EXCEPT !.pairs = @ \cup {<<G_NET_SPEED.netrx, G_NET_SPEED.nettx>>}]
    /\ UNCHANGED <<env, probe, overflowChecks, cpuMutex, G_CPU_PERCENT, cpuT, asm, stat>>

\* thread::sleep(SAMPLE_PERIOD) and the loop's next pass (line 225)
NetSleep ==
    /\ netT.pc = "sleep"
    /\ netT' = [netT EXCEPT !.pc = "read"]
    /\ UNCHANGED <<env, probe, overflowChecks, cpuMutex, netMutex, G_CPU_PERCENT, G_NET_SPEED,
                   cpuT, asm, stat, hist>>

(***************************************************************************)
(* Collectors.  Each returns its values, or panic.                         *)
(***************************************************************************)

\* get_uptime on a read [ok, tok]: whether read_to_string succeeded and the
\* text before the first '.'.
get_uptime(f) ==
    IF ~f.ok THEN [panic |-> TRUE, uptime |-> 0]
    ELSE [panic |-> FALSE, uptime |-> IF IsNum(f.tok) THEN f.tok ELSE 0]

\* get_loadavg on a read [ok, toks]: the whitespace-separated tokens, a load
\* figure in hundredths.
get_loadavg(f) ==
    IF ~f.ok THEN [panic |-> TRUE, load |-> <<0, 0, 0>>]
    ELSE IF Len(f.toks) >= 3
      THEN IF \E i \in 1..3 : ~IsNum(f.toks[i])
             THEN [panic |-> TRUE, load |-> <<0, 0, 0>>]
             ELSE [panic |-> FALSE, load |-> SubSeq(f.toks, 1, 3)]
    ELSE [panic |-> FALSE, load |-> <<0, 0, 0>>]

\* MEMORY_REGEX on a line [key, val, kB]: a key, then digits (val a number,
\* TOOBIG or EMPTY) or something else (BAD), then the unit kB or not.
MemLineMatches(l) == l.kB /\ l.val # BAD

\* The for loop of lines 65-73 from line i on: the map, or a panic.
RECURSIVE MemDictFrom(_, _, _)
MemDictFrom(lines, i, dict) ==
    IF i > Len(lines) THEN [panic |-> FALSE, dict |-> dict]
    ELSE LET l == lines[i]
         IN  IF ~MemLineMatches(l) THEN MemDictFrom(lines, i + 1, dict)
             ELSE IF ~IsNum(l.val) THEN [panic |-> TRUE, dict |-> dict]
             ELSE MemDictFrom(lines, i + 1,
                    [k \in DOMAIN dict \cup {l.key} |->
                        IF k = l.key THEN l.val ELSE dict[k]])

\* A chain a - b1 - b2 - ... of u64 subtractions, left to right.
RECURSIVE SubChain(_, _, _)
SubChain(a, bs, checks) ==
    IF bs = <<>> THEN [panic |-> FALSE, val |-> a]
    ELSE IF checks /\ SubOverflows(a, Head(bs)) THEN [panic |-> TRUE, val |-> 0]
    ELSE SubChain(WrappingSub(a, Head(bs)), Tail(bs), checks)

MemNoResult ==
    [panic |-> TRUE, mem_total |-> 0, mem_used |-> 0, swap_total |-> 0, swap_free |-> 0]

\* get_memory on a read [open, lines]
get_memory(f, checks) ==
    IF ~f.open THEN MemNoResult
    ELSE LET b == MemDictFrom(f.lines, 1, <<>>)
             res_dict == b.dict
         IN  IF b.panic THEN MemNoResult
             ELSE IF ~({"MemTotal", "SwapTotal", "SwapFree", "MemFree", "Buffers",
                        "Cached", "SReclaimable"} \subseteq DOMAIN res_dict)
               THEN MemNoResult
             ELSE LET u == SubChain(res_dict["MemTotal"],
                                    <<res_dict["MemFree"], res_dict["Buffers"],
                                      res_dict["Cached"], res_dict["SReclaimable"]>>,
                                    checks)
                  IN  IF u.panic THEN MemNoResult
                      ELSE [panic      |-> FALSE,
                            mem_total  |-> res_dict["MemTotal"],
                            mem_used   |-> u.val,
                            swap_total |-> res_dict["SwapTotal"],
                            swap_free  |-> res_dict["SwapFree"]]

\* get_hdd on the run of df [spawn, utf8, last]: whether the process ran,
\* whether its output is UTF-8, and the tokens of the output's last line.
get_hdd(out) ==
    IF ~out.spawn THEN [panic |-> TRUE, hdd_total |-> 0, hdd_used |-> 0]
    ELSE IF ~out.utf8 THEN [panic |-> FALSE, hdd_total |-> 0, hdd_used |-> 0]
    ELSE IF Len(out.last) < 3 \/ ~IsNum(out.last[3])
      THEN [panic |-> TRUE, hdd_total |-> 0, hdd_used |-> 0]
    ELSE IF Len(out.last) < 4 \/ ~IsNum(out.last[4])
      THEN [panic |-> TRUE, hdd_total |-> 0, hdd_used |-> 0]
    ELSE [panic |-> FALSE, hdd_total |-> out.last[3], hdd_used |-> out.last[4]]

\* The inner loop of lines 109-118 over one interface's month entries.
RECURSIVE VnMonthFrom(_, _, _, _, _)
VnMonthFrom(months, i, local_now, m_in, m_out) ==
    IF i > Len(months) THEN [rx |-> m_in, tx |-> m_out]
    ELSE LET data == months[i]
         IN  IF local_now.year # data.year \/ local_now.month # data.month
               THEN VnMonthFrom(months, i + 1, local_now, m_in, m_out)
               ELSE VnMonthFrom(months, i + 1, local_now, m_in + data.rx, m_out + data.tx)

\* The loop of lines 99-119 over the interfaces.
RECURSIVE VnIfaceFrom(_, _, _, _)
VnIfaceFrom(ifaces, i, local_now, acc) ==
    IF i > Len(ifaces) THEN acc
    ELSE LET iface == ifaces[i]
         IN  IF Ignored(iface.name) THEN VnIfaceFrom(ifaces, i + 1, local_now, acc)
             ELSE LET m == VnMonthFrom(iface.month, 1, local_now, acc[3], acc[4])
                  IN  VnIfaceFrom(ifaces, i + 1, local_now,
                        <<acc[1] + iface.rx, acc[2] + iface.tx, m.rx, m.tx>>)

\* get_vnstat_traffic on the run of vnstat [spawn, json, ifaces]: whether the
\* process ran, whether its output is JSON of the expected shape, and the
\* interfaces [name, rx, tx, month] of it (rx, tx: traffic.total).
get_vnstat_traffic(out, local_now) ==
    IF ~out.spawn \/ ~out.json THEN [panic |-> TRUE, val |-> <<0, 0, 0, 0>>]
    ELSE [panic |-> FALSE, val |-> VnIfaceFrom(out.ifaces, 1, local_now, <<0, 0, 0, 0>>)]

\* TRAFFIC_REGEX on a line: a name, a colon, eleven tokens of digits.
TrafficLineMatches(l) ==
    /\ l.colon
    /\ Len(l.name) > 0
    /\ Len(l.toks) >= 11
    /\ \A i \in 1..11 : IsDigits(l.toks[i])

\* The for loop of lines 132-148 from line i on.
RECURSIVE SysTrafficFrom(_, _, _, _)
SysTrafficFrom(lines, i, network_in, network_out) ==
    IF i > Len(lines) THEN [panic |-> FALSE, rx |-> network_in, tx |-> network_out]
    ELSE LET l == lines[i]
         IN  IF ~TrafficLineMatches(l) THEN SysTrafficFrom(lines, i + 1, network_in, network_out)
             ELSE IF Ignored(l.name) THEN SysTrafficFrom(lines, i + 1, network_in, network_out)
             ELSE IF ~IsNum(l.toks[1]) \/ ~IsNum(l.toks[9])
               THEN [panic |-> TRUE, rx |-> 0, tx |-> 0]
             ELSE SysTrafficFrom(lines, i + 1, network_in + l.toks[1],
                                 network_out + l.toks[9])

\* get_sys_traffic on a read of /proc/net/dev
get_sys_traffic(f) ==
    IF ~f.open \/ f.lineErr THEN [panic |-> TRUE, rx |-> 0, tx |-> 0]
    ELSE SysTrafficFrom(f.lines, 1, 0, 0)

(***************************************************************************)
(* sample(args, stat).                                                     *)
(***************************************************************************)
DefaultStat ==
    [version |-> "", vnstat |-> FALSE, uptime |-> 0,
     load_1 |-> 0, load_5 |-> 0, load_15 |-> 0,
     memory_total |-> 0, memory_used |-> 0, swap_total |-> 0, swap_used |-> 0,
     hdd_total |-> 0, hdd_used |-> 0,
     network_in |-> 0, network_out |-> 0,
     last_network_in |-> 0, last_network_out |-> 0,
     cpu |-> 0, network_rx |-> 0, network_tx |-> 0]

\* SampleTraffic whose get_sys_traffic branch clears last_network_in/out.
SampleTrafficResets(vnstat, s, e, checks) ==
    IF vnstat
      THEN LET v == get_vnstat_traffic(e.vn, e.local_now)
               li == SubChain(v.val[1], <<v.val[3]>>, checks)
               lo == SubChain(v.val[2], <<v.val[4]>>, checks)
           IN  IF v.panic
                 THEN [at |-> "get_vnstat_traffic", ran |-> {"get_vnstat_traffic"}, stat |-> s]
               ELSE IF li.panic
                 THEN [at |-> "sample", ran |-> {"get_vnstat_traffic"},
                       stat |-> [s EXCEPT !.network_in = v.val[1], !.network_out = v.val[2]]]
               ELSE IF lo.panic
                 THEN [at |-> "sample", ran |-> {"get_vnstat_traffic"},
                       stat |-> [s EXCEPT !.network_in = v.val[1], !.network_out = v.val[2],
                                          !.last_network_in = li.val]]
               ELSE [at |-> "none", ran |-> {"get_vnstat_traffic"},
                     stat |-> [s EXCEPT !.network_in = v.val[1],
                                        !.network_out = v.val[2],
                                        !.last_network_in = li.val,
                                        !.last_network_out = lo.val]]
      ELSE LET t == get_sys_traffic(e.dev)
           IN  IF t.panic
                 THEN [at |-> "get_sys_traffic", ran |-> {"get_sys_traffic"}, stat |-> s]
                 ELSE [at |-> "none", ran |-> {"get_sys_traffic"},
                       stat |-> [s EXCEPT !.network_in = t.rx, !.network_out = t.tx,
                                          !.last_network_in = 0, !.last_network_out = 0]]

\* Lines 315-325: the traffic collector chosen by args.vnstat.  ran is the
\* collector called.
SampleTraffic(vnstat, s, e, checks) ==
    IF vnstat
      THEN LET v == get_vnstat_traffic(e.vn, e.local_now)
               li == SubChain(v.val[1], <<v.val[3]>>, checks)
               lo == SubChain(v.val[2], <<v.val[4]>>, checks)
           IN  IF v.panic
                 THEN [at |-> "get_vnstat_traffic", ran |-> {"get_vnstat_traffic"}, stat |-> s]
               ELSE IF li.panic
                 THEN [at |-> "sample", ran |-> {"get_vnstat_traffic"},
                       stat |-> [s EXCEPT !.network_in = v.val[1], !.network_out = v.val[2]]]
               ELSE IF lo.panic
                 THEN [at |-> "sample", ran |-> {"get_vnstat_traffic"},
                       stat |-> [s EXCEPT !.network_in = v.val[1], !.network_out = v.val[2],
                                          !.last_network_in = li.val]]
               ELSE [at |-> "none", ran |-> {"get_vnstat_traffic"},
                     stat |-> [s EXCEPT !.network_in = v.val[1],
                                        !.network_out = v.val[2],
                                        !.last_network_in = li.val,
                                        !.last_network_out = lo.val]]
      ELSE LET t == get_sys_traffic(e.dev)
           IN  IF t.panic
                 THEN [at |-> "get_sys_traffic", ran |-> {"get_sys_traffic"}, stat |-> s]
                 ELSE [at |-> "none", ran |-> {"get_sys_traffic"},
                       stat |-> [s EXCEPT !.network_in = t.rx, !.network_out = t.tx]]

\* Lines 295-325: stat after the collectors, and where the call panicked
\* ("none": it did not).
SampleCollect(vnstat, st0, e, checks) ==
    LET s0 == [st0 EXCEPT !.version = "CARGO_PKG_VERSION", !.vnstat = vnstat]
        up == get_uptime(e.up)
        s1 == [s0 EXCEPT !.uptime = up.uptime]
        ld == get_loadavg(e.load)
        s2 == [s1 EXCEPT !.load_1 = ld.load[1], !.load_5 = ld.load[2],
                         !.load_15 = ld.load[3]]
        m  == get_memory(e.mem, checks)
        sw == SubChain(m.swap_total, <<m.swap_free>>, checks)
        s3 == [s2 EXCEPT !.memory_total = m.mem_total, !.memory_used = m.mem_used,
                         !.swap_total = m.swap_total]
        s4 == [s3 EXCEPT !.swap_used = sw.val]
        h  == get_hdd(e.df)
        s5 == [s4 EXCEPT !.hdd_total = h.hdd_total, !.hdd_used = h.hdd_used]
    IN  IF up.panic THEN [at |-> "get_uptime", ran |-> {}, stat |-> s0]
        ELSE IF ld.panic THEN [at |-> "get_loadavg", ran |-> {}, stat |-> s1]
        ELSE IF m.panic THEN [at |-> "get_memory", ran |-> {}, stat |-> s2]
        ELSE IF sw.panic THEN [at |-> "sample", ran |-> {}, stat |-> s3]
        ELSE IF h.panic THEN [at |-> "get_hdd", ran |-> {}, stat |-> s4]
        ELSE SampleTraffic(vnstat, s5, e, checks)

IdleAsm(pc) ==
    [pc |-> pc, at |-> "none", ran |-> {},
     entry_in |-> 0, entry_out |-> 0]

\* A StatRequest whose last_network fields the caller has set.
FilledStat == [DefaultStat EXCEPT !.last_network_in = 1, !.last_network_out = 2]

\* A call of sample up to the first lock request (lines 294-325), with
\* args.vnstat in modes and the caller's StatRequest in stats.
SampleCall(modes, stats) ==
    /\ asm.pc \in {"idle", "done"}
    /\ \E vnstat \in modes, st0 \in stats :
         \E r \in {SampleCollect(vnstat, st0, env, overflowChecks)} :
             /\ stat' = r.stat
             /\ asm' = [pc |-> IF r.at = "none" THEN "cpu_lock" ELSE "panicked",
                        at |-> r.at, ran |-> r.ran,
                        entry_in |-> st0.last_network_in,
                        entry_out |-> st0.last_network_out]
    /\ UNCHANGED <<env, probe, overflowChecks, cpuMutex, netMutex, G_CPU_PERCENT,
                   G_NET_SPEED, cpuT, netT, hist>>

\* G_CPU_PERCENT.lock() (line 327)
AsmCpuLock ==
    /\ asm.pc = "cpu_lock"
    /\ CanLock(cpuMutex)
    /\ cpuMutex' = Locked(cpuMutex, "sample")
    /\ asm' = [asm EXCEPT !.pc = "cpu_copy"]
    /\ UNCHANGED <<env, probe, overflowChecks, netMutex, G_CPU_PERCENT, G_NET_SPEED,
                   cpuT, netT, stat, hist>>

\* AsmCpuCopy whose guard lives on past the copy.
AsmCpuCopyKeepsGuard ==
    /\ asm.pc = "cpu_copy"
    /\ stat' = IF cpuMutex.poisoned THEN stat ELSE [stat EXCEPT !.cpu = G_CPU_PERCENT]
    /\ UNCHANGED cpuMutex
    /\ asm' = [asm EXCEPT !.pc = "net_lock"]
    /\ UNCHANGED <<env, probe, overflowChecks, netMutex, G_CPU_PERCENT, G_NET_SPEED,
                   cpuT, netT, hist>>

\* if let Ok(o) = ... { stat.cpu = *o; } and the guard's drop (lines 327-329)
AsmCpuCopy ==
    /\ asm.pc = "cpu_copy"
    /\ stat' = IF cpuMutex.poisoned THEN stat ELSE [stat EXCEPT !.cpu = G_CPU_PERCENT]
    /\ cpuMutex' = Unlocked(cpuMutex)
    /\ asm' = [asm EXCEPT !.pc = "net_lock"]
    /\ UNCHANGED <<env, probe, overflowChecks, netMutex, G_CPU_PERCENT, G_NET_SPEED,
                   cpuT, netT, hist>>

\* AsmNetLock that does not wait for the holder to release the mutex.
AsmNetLockNoWait ==
    /\ asm.pc = "net_lock"
    /\ netMutex' = Locked(netMutex, "sample")
    /\ asm' = [asm EXCEPT !.pc = "net_rx"]
    /\ UNCHANGED <<env, probe, overflowChecks, cpuMutex, G_CPU_PERCENT, G_NET_SPEED,
                   cpuT, netT, stat, hist>>

\* G_NET_SPEED.lock() (line 331)
AsmNetLock ==
    /\ asm.pc = "net_lock"
    /\ CanLock(netMutex)
    /\ netMutex' = Locked(netMutex, "sample")
    /\ asm' = [asm EXCEPT !.pc = "net_rx"]
    /\ UNCHANGED <<env, probe, overflowChecks, cpuMutex, G_CPU_PERCENT, G_NET_SPEED,
                   cpuT, netT, stat, hist>>

\* if let Ok(o) = ... { stat.network_rx = o.netrx; (lines 331-332); on a
\* poisoned mutex the block is skipped and sample returns.
AsmNetCopyRx ==
    /\ asm.pc = "net_rx"
    /\ IF netMutex.poisoned
         THEN /\ netMutex' = Unlocked(netMutex)
              /\ asm' = [asm EXCEPT !.pc = "done"]
              /\ UNCHANGED stat
         ELSE /\ stat' = [stat EXCEPT !.network_rx = G_NET_SPEED.netrx]
              /\ asm' = [asm EXCEPT !.pc = "net_tx"]
              /\ UNCHANGED netMutex
    /\ UNCHANGED <<env, probe, overflowChecks, cpuMutex, G_CPU_PERCENT, G_NET_SPEED,
                   cpuT, netT, hist>>

\* stat.network_tx = o.nettx; }, the guard's drop and the return (lines 333-350)
AsmNetCopyTx ==
    /\ asm.pc = "net_tx"
    /\ stat' = [stat EXCEPT !.network_tx = G_NET_SPEED.nettx]
    /\ netMutex' = Unlocked(netMutex)
    /\ asm' = [asm EXCEPT !.pc = "done"]
    /\ UNCHANGED <<env, probe, overflowChecks, cpuMutex, G_CPU_PERCENT, G_NET_SPEED,
                   cpuT, netT, hist>>

(***************************************************************************)
(* The parsers of /proc/net/dev applied to one table each: get_sys_traffic *)
(* and the read of a sampler tick.                                         *)
(***************************************************************************)
NoOut == [done |-> FALSE, panic |-> FALSE, rx |-> 0, tx |-> 0]

ProbeSysTraffic ==
    /\ ~probe.sys.done
    /\ probe' = [probe EXCEPT !.sys = [done |-> TRUE] @@ get_sys_traffic(env.dev)]
    /\ UNCHANGED <<env, overflowChecks, cpuMutex, netMutex, G_CPU_PERCENT, G_NET_SPEED,
                   cpuT, netT, asm, stat, hist>>

ProbeNetSum ==
    /\ ~probe.net.done
    /\ env.dev.open
    /\ probe' = [probe EXCEPT !.net = [done |-> TRUE] @@ NetSum(env.dev)]
    /\ UNCHANGED <<env, overflowChecks, cpuMutex, netMutex, G_CPU_PERCENT, G_NET_SPEED,
                   cpuT, netT, asm, stat, hist>>

(***************************************************************************)
(* Inputs.                                                                 *)
(***************************************************************************)
N_lo == <<"l", "o">>
N_eth0 == <<"e", "t", "h", "0">>
N_docker0 == <<"d", "o", "c", "k", "e", "r", "0">>
N_vnet1 == <<"v", "n", "e", "t", "1">>
N_ens3 == <<"e", "n", "s", "3">>
N_wlo1 == <<"w", "l", "o", "1">>
N_veth1 == <<"v", "e", "t", "h", "1">>
N_vmbr0 == <<"v", "m", "b", "r", "0">>
N_kube0 == <<"k", "u", "b", "e", "0">>
N_br1 == <<"b", "r", "-", "1">>
N_br0 == <<"b", "r", "0">>

Names == {N_lo, N_eth0, N_docker0, N_vnet1, N_ens3, N_wlo1, N_veth1, N_vmbr0,
          N_kube0, N_br1, N_br0}

Ifc(name, rx, tx) == [name |-> name, rx |-> rx, tx |-> tx]

Bytes == 0..MaxBytes

\* Tables of the kernel's format: one interface of any name; lo, eth0,
\* docker0, vnet1 together; two physical interfaces.
DevTables ==
    {<<Ifc(n, r, t)>> : n \in Names, r \in Bytes, t \in Bytes}
    \cup {<<Ifc(N_lo, 2, 1), Ifc(N_eth0, r, t), Ifc(N_docker0, 1, 2), Ifc(N_vnet1, 2, 2)>> :
            r \in Bytes, t \in Bytes}
    \cup {<<Ifc(N_eth0, r, t), Ifc(N_ens3, t, 1)>> : r \in Bytes, t \in Bytes}

\* Files that are not of the kernel's format: too few counters, a counter
\* that is no number, a counter beyond u64, no counters.
DevFilesMalformed ==
    {DevRaw(N_eth0, <<1, 1, 0, 0, 0, 0, 0, 0, 2>>),
     DevRaw(N_eth0, <<1, 1, 0>>),
     DevRaw(N_eth0, <<BAD, 1, 0, 0, 0, 0, 0, 0, 2, 1, 0, 0, 0, 0, 0, 0>>),
     DevRaw(N_eth0, <<TOOBIG, 1, 0, 0, 0, 0, 0, 0, 2, 1, 0, 0, 0, 0, 0, 0>>),
     DevRaw(N_eth0, <<>>),
     DevLineErr}

DevFilesAll == {DevFile(t) : t \in DevTables} \cup DevFilesMalformed \cup {DevOpenFails}

DevGood == DevFile(<<Ifc(N_lo, 1, 1), Ifc(N_eth0, 2, 1)>>)

DevLess == DevFile(<<Ifc(N_lo, 1, 1), Ifc(N_eth0, 1, 0)>>)

UpGood == [ok |-> TRUE, tok |-> 5]

UpsAll == {UpGood, [ok |-> TRUE, tok |-> BAD], [ok |-> FALSE, tok |-> BAD]}

LoadGood == [ok |-> TRUE, toks |-> <<50, 30, 10, BAD, 7>>]

LoadsAll == {LoadGood,
             [ok |-> TRUE, toks |-> <<50, 30>>],
             [ok |-> TRUE, toks |-> <<50, BAD, 10>>],
             [ok |-> FALSE, toks |-> <<>>]}

MemLine(key, val) == [key |-> key, val |-> val, kB |-> TRUE]

MemTable(total, free, buffers, cached, recl, st, sf) ==
    [open  |-> TRUE,
     lines |-> <<MemLine("MemTotal", total), MemLine("MemFree", free),
                 MemLine("Buffers", buffers), MemLine("Cached", cached),
                 MemLine("SwapTotal", st), MemLine("SwapFree", sf),
                 [key |-> "HugePages_Total", val |-> 0, kB |-> FALSE],
                 MemLine("SReclaimable", recl)>>]

MemGood == MemTable(2, 1, 0, 0, 1, 1, 1)

\* Tables with every key and a number for each.
MemTables ==
    {MemTable(total, free, buffers, cached, recl, 1, sf) :
        total \in 0..(MaxKb + 2), free \in 0..MaxKb, buffers \in 0..1, cached \in 0..1,
        recl \in 0..1, sf \in 0..1}

MemsAll ==
    MemTables
    \cup {[open |-> FALSE, lines |-> <<>>],
          [open |-> TRUE, lines |-> <<MemLine("MemTotal", 2), MemLine("MemFree", 1)>>],
          [MemGood EXCEPT !.lines[2].val = EMPTY],
          [MemGood EXCEPT !.lines[2].val = TOOBIG],
          [MemGood EXCEPT !.lines[2].val = BAD]}

DfGood == [spawn |-> TRUE, utf8 |-> TRUE, last |-> <<BAD, BAD, 3, 1, 2, BAD, BAD>>]

DfsAll == {DfGood,
           [spawn |-> FALSE, utf8 |-> TRUE, last |-> <<>>],
           [spawn |-> TRUE, utf8 |-> FALSE, last |-> <<>>],
           [spawn |-> TRUE, utf8 |-> TRUE, last |-> <<>>],
           [spawn |-> TRUE, utf8 |-> TRUE, last |-> <<BAD, BAD, 3>>],
           [spawn |-> TRUE, utf8 |-> TRUE, last |-> <<BAD, BAD, BAD, 1>>]}

Dec == [year |-> 2024, month |-> 12]
Jan == [year |-> 2025, month |-> 1]
DecBefore == [year |-> 2023, month |-> 12]

Dates == {Dec, Jan}

Month(date, rx, tx) == [year |-> date.year, month |-> date.month, rx |-> rx, tx |-> tx]

VnIfc(name, rx, tx, month) == [name |-> name, rx |-> rx, tx |-> tx, month |-> month]

VnOut(ifaces) == [spawn |-> TRUE, json |-> TRUE, ifaces |-> ifaces]

VnGood == VnOut(<<VnIfc(N_eth0, 3, 2, <<Month(Dec, 1, 1), Month(Jan, 1, 0)>>)>>)

\* Outputs of vnstat: the months of an interface sum to no more than its total.
VnsAll ==
    {VnOut(<<VnIfc(n, MaxBytes + 2, MaxBytes + 1,
                   <<Month(DecBefore, 1, 0), Month(Dec, r, t), Month(Jan, 1, 1)>>)>>) :
        n \in {N_eth0, N_lo, N_wlo1}, r \in Bytes, t \in Bytes}
    \cup {VnOut(<<VnIfc(N_docker0, 2, 2, <<Month(Dec, 1, 1)>>),
                  VnIfc(N_eth0, r + 1, 1, <<Month(Dec, r, 1)>>),
                  VnIfc(N_ens3, 1, t, <<Month(Jan, 1, t)>>)>>) : r \in Bytes, t \in Bytes}
    \cup {VnOut(<<>>),
          [spawn |-> FALSE, json |-> FALSE, ifaces |-> <<>>],
          [spawn |-> TRUE, json |-> FALSE, ifaces |-> <<>>]}

GoodIn == [up |-> UpGood, load |-> LoadGood, mem |-> MemGood, df |-> DfGood,
           vn |-> VnGood, dev |-> DevGood, local_now |-> Dec]

(***************************************************************************)
(* The state after the statics are built and before either sampler's first *)
(* pass.                                                                   *)
(***************************************************************************)
InitWith(envs) ==
    /\ overflowChecks \in BOOLEAN
    /\ cpuMutex = FreeMutex
    /\ netMutex = FreeMutex
    /\ G_CPU_PERCENT = 0
    /\ G_NET_SPEED = ZeroNetSpeed
    /\ cpuT = [pc |-> "read", pre_cpu |-> ZeroCpu, res |-> NoRes]
    /\ netT = IdleNet
    /\ asm = IdleAsm("idle")
    /\ stat = DefaultStat
    /\ hist = [cpuMono |-> TRUE, cpuIdleD |-> 0, cpuTotD |-> 0, pairs |-> {}]
    /\ env \in envs
    /\ probe = [sys |-> NoOut, net |-> NoOut]

Init == InitWith({GoodIn})

CpuSampler(files) == CpuRead(files) \/ CpuLock \/ CpuStore \/ CpuSleep

NetSampler(files, times) ==
    \/ NetRead(files, times)
    \/ NetLock
    \/ NetWriteClock
    \/ NetWriteRx
    \/ NetWriteTx
    \/ NetWriteAvg
    \/ NetSleep

AsmLocks == AsmCpuLock \/ AsmCpuCopy \/ AsmNetLock \/ AsmNetCopyRx \/ AsmNetCopyTx

(***************************************************************************)
(* Spec: both samplers and the thread calling sample.                      *)
(***************************************************************************)
CpuFilesFew == {CpuOpenFails, CpuFile(<<1, 0, 0, 0, 0>>), CpuFile(<<1, 1, 1>>)}

DevFilesFew == {DevOpenFails, DevGood, DevLess}

Next ==
    \/ CpuSampler(CpuFilesFew)
    \/ NetSampler(DevFilesFew, {1})
    \/ SampleCall(BOOLEAN, {DefaultStat})
    \/ AsmLocks

Spec == Init /\ [][Next]_vars

(***************************************************************************)
(* SpecCpu: the CPU sampler over every outcome of its read, and sample.    *)
(***************************************************************************)
NextCpu ==
    \/ CpuSampler(CpuFilesAll)
    \/ SampleCall({FALSE}, {DefaultStat, stat})
    \/ AsmLocks

SpecCpu == Init /\ [][NextCpu]_vars

(***************************************************************************)
(* SpecNet: the Network sampler over tables that grow and shrink and a     *)
(* clock that may stand still or step back, and sample.                    *)
(***************************************************************************)
Times == 1..MaxNow

DevFilesNet == {DevOpenFails, DevLineErr, DevRaw(N_eth0, <<1, 1, 0>>), DevGood, DevLess}

NextNet ==
    \/ NetSampler(DevFilesNet, Times)
    \/ SampleCall({FALSE}, {DefaultStat, stat})
    \/ AsmLocks

SpecNet == Init /\ [][NextNet]_vars

(***************************************************************************)
(* SpecSample: sample, and the two parsers of /proc/net/dev, over one      *)
(* environment in which one source at a time departs from the good one.    *)
(***************************************************************************)
EnvsAll ==
    {[GoodIn EXCEPT !.up = x] : x \in UpsAll}
    \cup {[GoodIn EXCEPT !.load = x] : x \in LoadsAll}
    \cup {[GoodIn EXCEPT !.mem = x] : x \in MemsAll}
    \cup {[GoodIn EXCEPT !.df = x] : x \in DfsAll}
    \cup {[GoodIn EXCEPT !.vn = x, !.local_now = d] : x \in VnsAll, d \in Dates}
    \cup {[GoodIn EXCEPT !.dev = x] : x \in DevFilesAll}

InitSample == InitWith(EnvsAll)

NextSample ==
    \/ SampleCall(BOOLEAN, {DefaultStat, stat, FilledStat})
    \/ AsmLocks
    \/ ProbeSysTraffic
    \/ ProbeNetSum

SpecSample == InitSample /\ [][NextSample]_vars

(***************************************************************************)
(* FairSpec: Spec with the scheduling the code provides.  A thread that    *)
(* holds a guard runs on until it drops it, and a thread waiting in lock() *)
(* gets the mutex once it is free often enough: each sampler sleeps        *)
(* SAMPLE_PERIOD between two requests, so no thread takes a mutex back to  *)
(* back for ever.                                                          *)
(***************************************************************************)
FairSpec ==
    /\ Spec
    /\ WF_vars(CpuStore)
    /\ WF_vars(NetWriteClock)
    /\ WF_vars(NetWriteRx)
    /\ WF_vars(NetWriteTx)
    /\ WF_vars(NetWriteAvg)
    /\ WF_vars(AsmCpuCopy)
    /\ WF_vars(AsmNetCopyRx)
    /\ WF_vars(AsmNetCopyTx)
    /\ SF_vars(CpuLock)
    /\ SF_vars(NetLock)
    /\ SF_vars(AsmCpuLock)
    /\ SF_vars(AsmNetLock)

(***************************************************************************)
(* Claims.                                                                 *)
(***************************************************************************)

\* C1: neither sampler loop ever terminates, whatever a tick's read returns
\* (open failure, malformed or short line, counters lower than before), and a
\* tick whose read fails leaves the published value as it was.
C1_SamplersNeverTerminate ==
    [][/\ cpuT'.pc # "dead"
       /\ netT'.pc # "dead"
       /\ (cpuT.pc = "read" /\ cpuT'.pc = "sleep" => G_CPU_PERCENT' = G_CPU_PERCENT)
       /\ (netT.pc = "read" /\ netT'.pc = "sleep" => G_NET_SPEED' = G_NET_SPEED)]_vars

C2_SoftFail == {"get_uptime", "get_loadavg", "get_hdd", "get_sys_traffic"}

\* C2: a parse or I/O failure of the source of get_uptime, get_loadavg,
\* get_hdd or get_sys_traffic never aborts sample, and the call that
\* completes carries the default value in the fields of the failed source.
C2_SoftFailNeverAborts ==
    /\ asm.pc = "panicked" => asm.at \notin C2_SoftFail
    /\ asm.pc = "done" =>
         /\ (~env.up.ok \/ ~IsNum(env.up.tok)) => stat.uptime = 0
         /\ (~env.load.ok \/ \E i \in 1..Min(3, Len(env.load.toks)) : ~IsNum(env.load.toks[i]))
               => stat.load_1 = 0 /\ stat.load_5 = 0 /\ stat.load_15 = 0
         /\ (~env.df.spawn \/ ~env.df.utf8 \/ Len(env.df.last) < 4
               \/ ~IsNum(env.df.last[3]) \/ ~IsNum(env.df.last[4]))
               => stat.hdd_total = 0 /\ stat.hdd_used = 0
         /\ (~stat.vnstat /\ (~env.dev.open \/ env.dev.lineErr))
               => stat.network_in = 0 /\ stat.network_out = 0

\* C3: a Network sampler tick whose elapsed time now - state.clock is zero
\* or negative does not crash: it goes on to store its rates and counters
\* and leaves the mutex sound.
C3_NonPositiveElapsedTickCompletes ==
    [][(netT.pc \in {"rx", "tx"} /\ G_NET_SPEED.diff <= 0)
          => (netT'.pc # "dead" /\ ~netMutex'.poisoned)]_vars

\* C4: as long as every CPU reading has been no lower, counter by counter,
\* than the reading before it (all zero at the start), the published CPU
\* percent and the cpu field of the snapshot are whole numbers from 0 to 100.
C4_CpuPercentInRange ==
    hist.cpuMono => G_CPU_PERCENT \in 0..100 /\ stat.cpu \in 0..100

\* C4 witness: after several rising readings the sampler has published 100
\* and a completed snapshot still carries an earlier 50.
C4_Witness ==
    /\ hist.cpuMono
    /\ asm.pc = "done"
    /\ stat.cpu = 50
    /\ G_CPU_PERCENT = 100
    /\ cpuT.pc = "sleep"

\* C5 as amended: a tick that publishes publishes 0 when the idle delta
\* equals the total delta and that delta is not zero, and 100 when the idle
\* delta is 0.
C5_BoundaryPercents ==
    [][(cpuT.pc = "store" /\ cpuT'.pc = "sleep" /\ ~cpuMutex.poisoned) =>
          /\ (hist.cpuIdleD = hist.cpuTotD /\ hist.cpuTotD # 0) => G_CPU_PERCENT' = 0
          /\ hist.cpuIdleD = 0 => G_CPU_PERCENT' = 100]_vars

\* C5 as claimed: a tick that publishes publishes 0 whenever the idle delta
\* equals the total delta, and 100 whenever the idle delta is 0.
C5_Original ==
    [][(cpuT.pc = "store" /\ cpuT'.pc = "sleep" /\ ~cpuMutex.poisoned) =>
          /\ hist.cpuIdleD = hist.cpuTotD => G_CPU_PERCENT' = 0
          /\ hist.cpuIdleD = 0 => G_CPU_PERCENT' = 100]_vars

\* C5 witness: a tick over a reading in which only idle rose has published 0.
C5_Witness ==
    /\ cpuT.pc = "sleep"
    /\ cpuT.pre_cpu # ZeroCpu
    /\ cpuT.pre_cpu[4] > 0
    /\ G_CPU_PERCENT = 0

\* C6: the (network_rx, network_tx) of a snapshot is the zero pair or a pair
\* one completed sampler tick published together, and sample copies only
\* while the sampler is not inside its update.
C6_SnapshotPairIsPublished ==
    /\ asm.pc = "done" =>
         <<stat.network_rx, stat.network_tx>> \in hist.pairs \cup {<<0, 0>>}
    /\ asm.pc \in {"net_rx", "net_tx"} => netT.pc \notin {"clock", "rx", "tx", "avg"}

\* C6 witness: a snapshot carries a published pair that is not the zero pair
\* while the sampler has since published another.
C6_Witness ==
    /\ asm.pc = "done"
    /\ <<stat.network_rx, stat.network_tx>> \in hist.pairs \ {<<0, 0>>}
    /\ <<stat.network_rx, stat.network_tx>> # <<G_NET_SPEED.netrx, G_NET_SPEED.nettx>>
    /\ netT.pc = "sleep"

C7_Keys == {"MemTotal", "MemFree", "Buffers", "Cached", "SReclaimable",
            "SwapTotal", "SwapFree"}

\* The table holds every key, each on a kB line with a number.
C7_AllKeys ==
    /\ env.mem.open
    /\ \A k \in C7_Keys :
         \E i \in 1..Len(env.mem.lines) :
            env.mem.lines[i].key = k /\ env.mem.lines[i].kB /\ IsNum(env.mem.lines[i].val)
    /\ \A i \in 1..Len(env.mem.lines) :
         env.mem.lines[i].kB => IsNum(env.mem.lines[i].val)

C7_Val(k) ==
    env.mem.lines[CHOOSE i \in 1..Len(env.mem.lines) : env.mem.lines[i].key = k].val

\* The positions of sample after its collectors have returned.
AfterCollectors == {"cpu_lock", "cpu_copy", "net_lock", "net_rx", "net_tx", "done"}

\* C7: on a memory table that holds every key with a non-negative number,
\* get_memory does not panic and returns used = total - free - buffers -
\* cached - reclaimable, with the table's total, swap total and swap free.
C7_MemoryUsed ==
    C7_AllKeys =>
      /\ asm.at # "get_memory"
      /\ asm.pc \in AfterCollectors =>
           /\ stat.memory_total = C7_Val("MemTotal")
           /\ stat.memory_used = C7_Val("MemTotal") - C7_Val("MemFree") - C7_Val("Buffers")
                                   - C7_Val("Cached") - C7_Val("SReclaimable")
           /\ stat.swap_total = C7_Val("SwapTotal")
           /\ stat.swap_used = C7_Val("SwapTotal") - C7_Val("SwapFree")

C8_Filters ==
    {<<"l", "o">>, <<"d", "o", "c", "k", "e", "r">>, <<"v", "n", "e", "t">>,
     <<"v", "e", "t", "h">>, <<"v", "m", "b", "r">>, <<"k", "u", "b", "e">>,
     <<"b", "r", "-">>}

\* A table of the kernel's format: every line with a colon has its sixteen
\* counters.
C8_KernelTable(f) ==
    /\ f.open
    /\ ~f.lineErr
    /\ \A i \in 1..Len(f.lines) :
         f.lines[i].colon =>
            /\ Len(f.lines[i].toks) = 16
            /\ \A j \in 1..16 : IsNum(f.lines[i].toks[j])

\* The interface lines whose name contains none of the filter substrings.
C8_Counted(f) ==
    {i \in 1..Len(f.lines) :
        /\ f.lines[i].colon
        /\ \A p \in C8_Filters : ~Contains(f.lines[i].name, p)}

RECURSIVE C8_Sum(_, _, _)
C8_Sum(f, S, col) ==
    IF S = {} THEN 0
    ELSE LET i == CHOOSE x \in S : TRUE
         IN  f.lines[i].toks[col] + C8_Sum(f, S \ {i}, col)

C8_Names(f) == [i \in 1..Len(f.lines) |-> f.lines[i].name]

C8_TotalsAre(out, rx, tx) == out.done => ~out.panic /\ out.rx = rx /\ out.tx = tx

\* C8: on a table of the kernel's format both get_sys_traffic and the read
\* of a sampler tick return the sums of receive bytes (first counter) and
\* transmit bytes (ninth counter) over the interfaces whose name contains no
\* filter substring; of lo, eth0, docker0, vnet1 only eth0 counts; a single
\* unfiltered interface gives its own two values.
C8_FilteredTotals ==
    C8_KernelTable(env.dev) =>
      /\ C8_TotalsAre(probe.sys, C8_Sum(env.dev, C8_Counted(env.dev), 1),
                                 C8_Sum(env.dev, C8_Counted(env.dev), 9))
      /\ C8_TotalsAre(probe.net, C8_Sum(env.dev, C8_Counted(env.dev), 1),
                                 C8_Sum(env.dev, C8_Counted(env.dev), 9))
      /\ C8_Names(env.dev) = <<<<>>, <<>>, N_lo, N_eth0, N_docker0, N_vnet1>> =>
           /\ C8_TotalsAre(probe.sys, env.dev.lines[4].toks[1], env.dev.lines[4].toks[9])
           /\ C8_TotalsAre(probe.net, env.dev.lines[4].toks[1], env.dev.lines[4].toks[9])
      /\ (Len(env.dev.lines) = 3 /\ env.dev.lines[3].name \in {N_eth0, N_ens3, N_br0}) =>
           /\ C8_TotalsAre(probe.sys, env.dev.lines[3].toks[1], env.dev.lines[3].toks[9])
           /\ C8_TotalsAre(probe.net, env.dev.lines[3].toks[1], env.dev.lines[3].toks[9])

\* C8 witness: both parsers have run on lo, eth0, docker0, vnet1 with eth0 at
\* 2 bytes received and 1 sent.
C8_Witness ==
    /\ C8_Names(env.dev) = <<<<>>, <<>>, N_lo, N_eth0, N_docker0, N_vnet1>>
    /\ probe.sys.done /\ probe.sys.rx = 2 /\ probe.sys.tx = 1
    /\ probe.net.done /\ probe.net.rx = 2 /\ probe.net.tx = 1

\* C9: a rate-state mutex is held only inside the short update or copy
\* (never at a sampler's read or during sample's collectors), no thread
\* holds both mutexes, and every lock request is eventually granted.
C9_LocksShortAndGranted ==
    /\ [](/\ (cpuMutex.holder = "cpu") = (cpuT.pc = "store")
          /\ (netMutex.holder = "net") = (netT.pc \in {"clock", "rx", "tx", "avg"})
          /\ (cpuMutex.holder = "sample") = (asm.pc = "cpu_copy")
          /\ (netMutex.holder = "sample") = (asm.pc \in {"net_rx", "net_tx"})
          /\ ~(cpuMutex.holder = "sample" /\ netMutex.holder = "sample"))
    /\ (cpuT.pc = "lock") ~> (cpuT.pc = "store")
    /\ (netT.pc = "lock") ~> (netT.pc = "clock")
    /\ (asm.pc = "cpu_lock") ~> (asm.pc = "cpu_copy")
    /\ (asm.pc = "net_lock") ~> (asm.pc = "net_rx")

\* C9 witness: both samplers wait in lock() while sample holds the Network
\* mutex, which a panic of an earlier holder has not poisoned.
C9_Witness ==
    /\ netT.pc = "lock"
    /\ netMutex.holder = "sample"
    /\ cpuT.pc = "lock"
    /\ G_NET_SPEED.clock > 0

\* C10: a call of sample runs one traffic collector, the one args.vnstat
\* names: get_vnstat_traffic, setting network_in/out and last_network_in/out
\* = total - current-month total, or get_sys_traffic, setting network_in/out
\* and leaving last_network_in/out as the caller passed them.
C10_OneTrafficCollector ==
    /\ Cardinality(asm.ran) <= 1
    /\ asm.pc \in AfterCollectors =>
         IF stat.vnstat
           THEN /\ asm.ran = {"get_vnstat_traffic"}
                /\ stat.network_in = get_vnstat_traffic(env.vn, env.local_now).val[1]
                /\ stat.network_out = get_vnstat_traffic(env.vn, env.local_now).val[2]
                /\ stat.last_network_in = stat.network_in
                      - get_vnstat_traffic(env.vn, env.local_now).val[3]
                /\ stat.last_network_out = stat.network_out
                      - get_vnstat_traffic(env.vn, env.local_now).val[4]
           ELSE /\ asm.ran = {"get_sys_traffic"}
                /\ stat.network_in = get_sys_traffic(env.dev).rx
                /\ stat.network_out = get_sys_traffic(env.dev).tx
                /\ stat.last_network_in = asm.entry_in
                /\ stat.last_network_out = asm.entry_out

\* C10 witness: a call with args.vnstat false has completed on the
\* StatRequest of an earlier call with args.vnstat true, whose last_network
\* fields (2 and 1) it still carries.
C10_Witness ==
    /\ asm.pc = "done"
    /\ ~stat.vnstat
    /\ env = GoodIn
    /\ stat.network_in = 2
    /\ stat.last_network_in = 2
    /\ stat.last_network_out = 1
=============================================================================
